---- MODULE Spec2Model ----
(***************************************************************************)
(* A model of the devnovate-hub blogging platform: the relational schema   *)
(* with its row-level security policies and triggers, the admin dashboard  *)
(* (status workflow and approval notification), the blog page (likes) and  *)
(* the comment section (thread assembly).                                  *)
(***************************************************************************)
EXTENDS Integers, Sequences, FiniteSets, TLC

(***************************************************************************)
(* Bounds of the model.                                                    *)
(***************************************************************************)
NumUsers == 2
NumBlogs == 2
NumTabs == 1
NumViews == 2
MaxStmts == 3
MaxRows == 2
MaxComments == 3
MaxCalls == 2

(* SQL NULL in a timestamp column; real timestamps are 1, 2, ... *)
NULL == 0

Users == 1 .. NumUsers
BlogIds == 1 .. NumBlogs
Tabs == 1 .. NumTabs
Views == 1 .. NumViews

(* The CHECK constraint of blogs.status. *)
Statuses == {"pending", "approved", "rejected", "hidden"}

(* JavaScript's undefined, as the value of a property that is not there. *)
Undefined == "undefined"

VARIABLES
  profiles,     \* table profiles: profile id -> [user_id, role]
  blogs,        \* table blogs: blog id -> row
  now,          \* the database clock, now()
  version,      \* which revision of the admin dashboard is deployed
  adminBlogs,   \* per dashboard tab: the React state `blogs`
  calls,        \* the updateBlogStatus calls, in the order they were started
  lastStmt,     \* the last statement the REST API executed on blogs
  likes,        \* table likes: a set of rows
  comments,     \* table comments: a set of rows
  nextId,       \* ids handed out so far to likes and comments rows
  lastResult,   \* outcome of the last statement on likes or comments
  isLiked,      \* per blog page tab: React state isLiked
  likesCount,   \* per blog page tab: React state likesCount
  likeReq,      \* per blog page tab: the like request in flight
  data,         \* fetchComments: the rows returned by the query
  commentMap,   \* fetchComments: the Map id -> comment, as built so far
  replies,      \* fetchComments: per node of the map, its replies array
  rootComments, \* fetchComments: the rootComments array
  tpc,          \* fetchComments: the pass and the index of its next row
  notification, \* send-notifications: the last request and its response
  outbox,       \* send-notifications: the mails handed to the provider so far
  summarization,\* summarize-article: the last request and its response
  upstreamCalls,\* summarize-article: the calls made to the LLM API so far
  trips,        \* the last user action and the requests it issued
  page,         \* per blog page tab: fetchBlog's position, blog and the count read
  lastRead,     \* the last select on blogs: its caller, its view and its rows
  admin_whitelist, \* table admin_whitelist: the set of its email keys
  authUsers,    \* table auth.users: the signups, in their order
  lastWl,       \* the last statement on admin_whitelist and its rows
  lastSubmit,   \* the last click on the article form's submit button, and their number
  rendering,    \* the comment list: React's position in it and the comments rendered
  section,      \* per comment section tab: its list, its reply form and its request
  lastProfile,  \* the last statement the REST API executed on profiles
  blogView      \* per blog page tab: the state of BlogView and the requests of its effect

vars == <<profiles, blogs, now, version, adminBlogs, calls, lastStmt, likes,
          comments, nextId, lastResult, isLiked, likesCount, likeReq, data,
          commentMap, replies, rootComments, tpc, notification, outbox,
          summarization, upstreamCalls, trips, page, lastRead,
          admin_whitelist, authUsers, lastWl, lastSubmit, rendering, section, blogView, lastProfile>>

adminVars == <<version, adminBlogs, calls>>
stmtVars == <<lastStmt, lastProfile>>
statsVars == <<likes, comments, nextId, lastResult, isLiked, likesCount, likeReq>>
threadVars == <<data, commentMap, replies, rootComments, tpc>>
edgeVars == <<notification, outbox, summarization, upstreamCalls>>

(* Everything outside the database, the dashboard, the blog page's like
   button and the comment section. *)
uiVars == <<trips, page, lastRead, lastSubmit>>
accountVars == <<admin_whitelist, authUsers, lastWl>>
viewVars == <<rendering, section, blogView>>
siteVars == <<edgeVars, uiVars, accountVars, viewVars>>

(***************************************************************************)
(* The schema: profiles and blogs.                                         *)
(***************************************************************************)

(* profiles.id is a fresh UUID, never the auth user's id. *)
ProfileId(u) == NumUsers + u

ProfileIds == {ProfileId(u) : u \in Users}

(* auth.users.email of a user. *)
EmailOf(u) == ToString(u) \o "@example.com"

(* The user whose profile is p. *)
UserOf(p) == profiles[p].user_id

(* EXISTS(SELECT 1 FROM profiles WHERE user_id = auth.uid() AND role = 'admin') *)
IsAdmin(uid) ==
  \E p \in DOMAIN profiles : profiles[p].user_id = uid /\ profiles[p].role = "admin"

(* auth.uid() = (SELECT user_id FROM profiles WHERE id = author_id) *)
IsAuthor(uid, row) ==
  \E p \in DOMAIN profiles : p = row.author_id /\ profiles[p].user_id = uid

(* The two permissive UPDATE policies on blogs, OR-ed; they have no WITH
   CHECK clause and name no column. *)
BlogsUpdatePolicy(uid, row) ==
  \/ IsAuthor(uid, row) \/ IsAdmin(uid)
  \/ IsAdmin(uid)

(* A table every caller reads whole. *)
BlogsSelectPolicy_Public(uid, row) == TRUE

(* The permissive SELECT policies on blogs, OR-ed. *)
BlogsSelectPolicy(uid, row) ==
  \/ row.status = "approved" \/ IsAuthor(uid, row)
  \/ IsAdmin(uid)

(* CHECK (status IN ('pending', 'approved', 'rejected', 'hidden')) *)
BlogsCheck(row) == row.status \in Statuses

(* SET <payload>: the columns the payload names take its values. *)
Merge(row, payload) ==
  [c \in DOMAIN row |-> IF c \in DOMAIN payload THEN payload[c] ELSE row[c]]

(* BEFORE UPDATE trigger update_blogs_updated_at. *)
update_updated_at_column(row, t) == [row EXCEPT !.updated_at = t]

(* UPDATE blogs SET <payload> WHERE id = b, issued by uid at time t: the row
   after the statement.  A row the policies hide is not updated (and no error
   is raised); a row violating the CHECK constraint aborts the statement. *)
UpdatedRow(uid, row, payload, t) ==
  IF BlogsUpdatePolicy(uid, row) /\ BlogsCheck(Merge(row, payload))
  THEN update_updated_at_column(Merge(row, payload), t)
  ELSE row

(* The row a blog is created with (column defaults). *)
NewBlog(b) ==
  [author_id |-> ProfileId(((b - 1) % NumUsers) + 1), title |-> "v1",
   status |-> "pending", likes_count |-> 0, comments_count |-> 0,
   views_count |-> 0, updated_at |-> 1, published_at |-> NULL]

(***************************************************************************)
(* The admin dashboard.                                                    *)
(***************************************************************************)

(* The signed-in user of the dashboard tabs. *)
AdminUser == 1

(* The deployed revision of the pages.  Revision 1: the first AdminDashboard
   (Hide button, no notification) and the first CreateBlog (no check of the
   form); revision 2: the later ones (Unpublish, approval notification,
   required title and content). *)
Versions == {1, 2}

(* A dashboard that sends a rejected blog back to review. *)
Offered_Requeue(v, status) ==
  CASE status = "pending" -> {"approved", "rejected"}
    [] status = "approved" -> IF v = 1 THEN {"hidden"} ELSE {"rejected"}
    [] status = "rejected" -> {"pending"}
    [] OTHER -> {}

(* The status buttons a card shows for the status in the local list. *)
Offered(v, status) ==
  IF v = 1
  THEN CASE status = "pending" -> {"approved", "rejected"}
         [] status = "approved" -> {"hidden"}
         [] OTHER -> {}
  ELSE CASE status = "pending" -> {"approved", "rejected"}
         [] status = "approved" -> {"rejected"}
         [] status = "rejected" -> {"approved"}
         [] OTHER -> {}

(* profiles!blogs_author_id_fkey(full_name, username, avatar_url) *)
ProfilesJoin(p) ==
  [full_name |-> "name", username |-> "user", avatar_url |-> "url"]

(* obj.field in JavaScript. *)
Prop(obj, field) == IF field \in DOMAIN obj THEN obj[field] ELSE Undefined

(* A payload that names published_at only when approving. *)
StatusPayload_KeepPublishedAt(status, t) ==
  IF status = "approved" THEN [status |-> status, published_at |-> t]
  ELSE [status |-> status]

(* The update payload of updateBlogStatus. *)
StatusPayload(status, t) ==
  [status |-> status, published_at |-> IF status = "approved" THEN t ELSE NULL]

(* blogs.map(blog => blog.id === blogId ? { ...blog, status } : blog) *)
MapStatus(list, blogId, status) ==
  [b \in DOMAIN list |-> IF b = blogId THEN [list[b] EXCEPT !.status = status]
                         ELSE list[b]]

(* The body of the send-notifications request for an approved blog. *)
ApprovalBody(blog) ==
  [type |-> "blog_approved",
   recipientEmail |-> Prop(blog.profiles, "email"),
   recipientName |-> Prop(blog.profiles, "full_name"),
   blogTitle |-> blog.title]

(* !x for the values a request field takes: absent or the empty string. *)
Falsy(x) == x \in {Undefined, ""}

(* The edge function: 200 when the mail was handed to the provider; every
   thrown error, a missing field included, is answered 500. *)
NotificationTypes == {"new_blog", "new_comment", "blog_approved"}

handler(body, providerOk) ==
  IF Falsy(body.type) \/ Falsy(body.recipientEmail) \/ Falsy(body.recipientName)
  THEN 500
  ELSE IF body.type \notin NotificationTypes THEN 500
  ELSE IF providerOk THEN 200 ELSE 500

(* Whether the revision sends the approval notification. *)
Notifies(v, status, list, blogId) ==
  v = 2 /\ status = "approved" /\ blogId \in DOMAIN list

(* A notification error that reaches the outer catch. *)
ToastAfterNotify_Propagates(response) ==
  IF response = 200 THEN "success" ELSE "error"

(* What the call shows once the notification request has returned or thrown:
   the inner try/catch only logs. *)
ToastAfterNotify(response) == "success"

(* The state after the migrations and the signups: every user has the
   profile the signup trigger made, every blog is as submitted, no like and
   no comment exists, every page is freshly loaded. *)
Init ==
  /\ profiles = [p \in ProfileIds |->
                   [user_id |-> p - NumUsers,
                    role |-> IF p - NumUsers = AdminUser THEN "admin" ELSE "blogger"]]
  /\ blogs = [b \in BlogIds |-> NewBlog(b)]
  /\ now = 1
  /\ version \in Versions
  /\ adminBlogs = [t \in Tabs |-> << >>]
  /\ calls = << >>
  /\ lastStmt = [caller |-> 0, blog |-> 0]
  /\ likes = {}
  /\ comments = {}
  /\ nextId = 0
  /\ lastResult = "none"
  /\ isLiked = [t \in Views |-> FALSE]
  /\ likesCount = [t \in Views |-> 0]
  /\ likeReq = [t \in Views |-> "none"]
  /\ data = << >>
  /\ commentMap = << >>
  /\ replies = << >>
  /\ rootComments = << >>
  /\ tpc = [pass |-> "idle", i |-> 0]
  /\ notification = [request |-> << >>, response |-> << >>]
  /\ outbox = 0
  /\ summarization = [request |-> << >>, response |-> << >>]
  /\ upstreamCalls = 0
  /\ trips = [action |-> "none", input |-> << >>, requests |-> << >>]
  /\ page = [v \in Views |-> [pc |-> "idle", blog |-> 0, read |-> 0]]
  /\ lastRead = [caller |-> 0, view |-> "none", rows |-> {}]
  /\ admin_whitelist = {}
  /\ authUsers = << >>
  /\ lastWl = [caller |-> 0, op |-> "none", email |-> << >>, rows |-> {}]
  /\ lastSubmit = [user |-> 0, form |-> << >>, n |-> 0, id |-> 0]
  /\ rendering = [pc |-> "idle", stack |-> << >>, out |-> << >>]
  /\ section = [t \in Views |-> [comments |-> << >>, replies |-> << >>, rows |-> 0,
                                 replyTo |-> NULL, pc |-> "loading"]]
  /\ blogView = [v \in Views |-> [mounted |-> FALSE, user |-> FALSE, blog |-> 0,
                                  loading |-> TRUE, gone |-> FALSE, runs |-> 0,
                                  fetches |-> {}, check |-> FALSE]]
  /\ lastProfile = [caller |-> 0, profile |-> 0, payload |-> << >>]

(* fetchAllBlogs: the rows the SELECT policies show, each with its join. *)
fetchAllBlogs(t) ==
  /\ adminBlogs' = [adminBlogs EXCEPT ![t] =
       [b \in {x \in BlogIds : BlogsSelectPolicy(AdminUser, blogs[x])} |->
          [status |-> blogs[b].status, title |-> blogs[b].title,
           profiles |-> ProfilesJoin(blogs[b].author_id)]]]
  /\ UNCHANGED <<siteVars, profiles, blogs, now, version, calls, stmtVars, statsVars, threadVars>>

(* A click on a status button: updateBlogStatus starts with the `blogs` of the
   render that made the button, and sends the update. *)
updateBlogStatus(t, blogId, status) ==
  /\ Len(calls) < MaxCalls
  /\ blogId \in DOMAIN adminBlogs[t]
  /\ status \in Offered(version, adminBlogs[t][blogId].status)
  /\ calls' = Append(calls,
       [tab |-> t, blogId |-> blogId, status |-> status, blogs |-> adminBlogs[t],
        pc |-> "update", updated |-> FALSE, toast |-> "none", request |-> << >>,
        response |-> 0])
  /\ UNCHANGED <<siteVars, profiles, blogs, now, version, adminBlogs, stmtVars, statsVars, threadVars>>

(* The database executes the update of call c at the next instant of its
   clock and the call resumes after its await: setBlogs, then either the
   notification request or the success toast.  When the request fails instead,
   the catch block shows the error toast. *)
DbUpdate(c, ok) ==
  /\ calls[c].pc = "update"
  /\ IF ok
     THEN /\ now' = now + 1
          /\ blogs' = [blogs EXCEPT ![calls[c].blogId] =
                UpdatedRow(AdminUser, @, StatusPayload(calls[c].status, now'), now')]
          /\ adminBlogs' = [adminBlogs EXCEPT ![calls[c].tab] =
                MapStatus(calls[c].blogs, calls[c].blogId, calls[c].status)]
          /\ IF Notifies(version, calls[c].status, calls[c].blogs, calls[c].blogId)
             THEN calls' = [calls EXCEPT ![c].pc = "notify", ![c].updated = TRUE,
                     ![c].request = <<ApprovalBody(calls[c].blogs[calls[c].blogId])>>]
             ELSE calls' = [calls EXCEPT ![c].pc = "done", ![c].updated = TRUE,
                                        ![c].toast = "success"]
     ELSE /\ calls' = [calls EXCEPT ![c].pc = "done", ![c].toast = "error"]
          /\ UNCHANGED <<blogs, now, adminBlogs>>
  /\ UNCHANGED <<siteVars, profiles, version, stmtVars, statsVars, threadVars>>

(* The notification request returns (the edge function's status, or 0 when
   the request itself threw); then the toast. *)
AfterNotify(c, providerOk, threw) ==
  /\ calls[c].pc = "notify"
  /\ LET response == IF threw THEN 0 ELSE handler(calls[c].request[1], providerOk)
     IN calls' = [calls EXCEPT ![c].pc = "done", ![c].response = response,
                                ![c].toast = ToastAfterNotify(response)]
  /\ UNCHANGED <<siteVars, profiles, blogs, now, version, adminBlogs, stmtVars, statsVars, threadVars>>

FetchStep == \E t \in Tabs : fetchAllBlogs(t)
ClickStep == \E t \in Tabs, b \in BlogIds, s \in Statuses : updateBlogStatus(t, b, s)
DbUpdateStep == \E c \in DOMAIN calls, ok \in BOOLEAN : DbUpdate(c, ok)
AfterNotifyStep ==
  \E c \in DOMAIN calls, providerOk \in BOOLEAN, threw \in BOOLEAN :
    AfterNotify(c, providerOk, threw)

NextAdmin ==
  \/ FetchStep
  \/ ClickStep
  \/ DbUpdateStep
  \/ AfterNotifyStep

SpecAdmin ==
  /\ Init
  /\ [][NextAdmin]_vars

(***************************************************************************)
(* Direct use of the REST API under the row-level security policies.       *)
(***************************************************************************)

(* The payloads a caller sends: any status text, alone or with a
   publication time, or a new title. *)
Payloads(t) ==
  {[status |-> s] : s \in Statuses \cup {"draft"}}
    \cup {[status |-> "approved", published_at |-> t], [title |-> "v2"]}

(* PATCH /blogs?id=eq.b by the signed-in user uid. *)
ApiUpdateBlog(uid, b, payload) ==
  /\ now < MaxStmts
  /\ now' = now + 1
  /\ blogs' = [blogs EXCEPT ![b] = UpdatedRow(uid, @, payload, now')]
  /\ lastStmt' = [caller |-> uid, blog |-> b]
  /\ UNCHANGED <<siteVars, profiles, adminVars, lastProfile, statsVars, threadVars>>

ApiUpdateStep ==
  \E uid \in Users, b \in BlogIds : \E payload \in Payloads(now + 1) :
    ApiUpdateBlog(uid, b, payload)

NextRLS == ApiUpdateStep

SpecRLS ==
  /\ Init
  /\ [][NextRLS]_vars

(***************************************************************************)
(* Likes and comments: constraints, policies and the counting triggers.    *)
(***************************************************************************)

(* A session with the table owner's rights (SQL editor, migrations): row-level
   security does not apply to it; constraints and triggers do. *)
Owner == 0

Callers == Users \cup {Owner}

(* auth.uid() = (SELECT user_id FROM profiles WHERE id = user_id): inside the
   subquery both id and user_id are columns of profiles, so it yields the
   user_id of the profiles whose id equals their own user_id; no such row
   gives NULL and more than one row is an error. *)
LikesPolicy(uid, row) ==
  LET found == {profiles[p].user_id : p \in {q \in DOMAIN profiles : q = profiles[q].user_id}}
  IN found = {uid}

(* auth.uid() = (SELECT user_id FROM profiles WHERE id = author_id) *)
CommentsInsertPolicy(uid, row) ==
  \E p \in DOMAIN profiles : p = row.author_id /\ profiles[p].user_id = uid

(* REFERENCES profiles(id), REFERENCES blogs(id) *)
LikesForeignKeys(row) == row.user_id \in DOMAIN profiles /\ row.blog_id \in DOMAIN blogs

(* The table without its UNIQUE constraint. *)
LikesUnique_Missing(tbl, row) == TRUE

(* UNIQUE(user_id, blog_id) *)
LikesUnique(tbl, row) ==
  ~ \E l \in tbl : l.user_id = row.user_id /\ l.blog_id = row.blog_id

(* REFERENCES blogs(id), profiles(id), comments(id) *)
CommentsForeignKeys(tbl, row) ==
  /\ row.blog_id \in DOMAIN blogs
  /\ row.author_id \in DOMAIN profiles
  /\ row.parent_id # NULL => \E c \in tbl : c.id = row.parent_id

(* A trigger function that counts inserts only. *)
update_blog_stats_InsertOnly(tbl, TG_TABLE_NAME, TG_OP, blog_id) ==
  IF blog_id \notin DOMAIN tbl \/ TG_OP # "INSERT" THEN tbl
  ELSE IF TG_TABLE_NAME = "likes"
  THEN [tbl EXCEPT ![blog_id].likes_count = @ + 1]
  ELSE [tbl EXCEPT ![blog_id].comments_count = @ + 1]

(* The trigger function update_blog_stats for one row (SECURITY DEFINER: the
   policies of blogs do not apply); its UPDATE fires the updated_at trigger. *)
update_blog_stats(tbl, TG_TABLE_NAME, TG_OP, blog_id) ==
  LET d == IF TG_OP = "INSERT" THEN 1 ELSE IF TG_OP = "DELETE" THEN -1 ELSE 0
  IN IF blog_id \notin DOMAIN tbl THEN tbl
     ELSE IF TG_TABLE_NAME = "likes"
     THEN [tbl EXCEPT ![blog_id] =
             update_updated_at_column([@ EXCEPT !.likes_count = @ + d], now)]
     ELSE IF TG_TABLE_NAME = "comments"
     THEN [tbl EXCEPT ![blog_id] =
             update_updated_at_column([@ EXCEPT !.comments_count = @ + d], now)]
     ELSE tbl

(* FOR EACH ROW: the trigger function runs once per affected row. *)
RECURSIVE ForEachRow(_, _, _, _)
ForEachRow(tbl, TG_TABLE_NAME, TG_OP, rows) ==
  IF rows = {} THEN tbl
  ELSE LET r == CHOOSE x \in rows : TRUE
       IN ForEachRow(update_blog_stats(tbl, TG_TABLE_NAME, TG_OP, r.blog_id),
                     TG_TABLE_NAME, TG_OP, rows \ {r})

(* ON DELETE CASCADE on comments.parent_id: the rows that go with `rows`. *)
RECURSIVE Cascade(_, _)
Cascade(tbl, rows) ==
  LET more == {c \in tbl : \E r \in rows : c.parent_id = r.id} \ rows
  IN IF more = {} THEN rows ELSE Cascade(tbl, rows \cup more)

(* INSERT INTO likes (user_id, blog_id): the outcome. *)
LikeInsertResult(caller, row) ==
  IF caller # Owner /\ ~ LikesPolicy(caller, row) THEN "rls_violation"
  ELSE IF ~ LikesForeignKeys(row) THEN "fk_violation"
  ELSE IF ~ LikesUnique(likes, row) THEN "unique_violation"
  ELSE "inserted"

InsertLike(caller, user_id, blog_id) ==
  LET row == [id |-> nextId + 1, user_id |-> user_id, blog_id |-> blog_id]
      res == LikeInsertResult(caller, row)
  IN /\ lastResult' = res
     /\ IF res = "inserted"
        THEN /\ likes' = likes \cup {row}
             /\ nextId' = nextId + 1
             /\ blogs' = ForEachRow(blogs, "likes", "INSERT", {row})
        ELSE UNCHANGED <<likes, nextId, blogs>>

(* DELETE FROM likes WHERE blog_id = .. AND user_id = ..: the rows the DELETE
   policy shows to the caller go; none is no error. *)
DeleteLike(caller, user_id, blog_id) ==
  LET rows == {l \in likes : /\ l.user_id = user_id /\ l.blog_id = blog_id
                             /\ (caller = Owner \/ LikesPolicy(caller, l))}
  IN /\ lastResult' = IF rows = {} THEN "no_rows" ELSE "deleted"
     /\ likes' = likes \ rows
     /\ blogs' = ForEachRow(blogs, "likes", "DELETE", rows)
     /\ UNCHANGED nextId

(* A statement on likes sent directly to the database. *)
SqlInsertLike(caller, user_id, blog_id) ==
  /\ nextId < MaxRows
  /\ InsertLike(caller, user_id, blog_id)
  /\ UNCHANGED <<siteVars, profiles, now, comments, isLiked, likesCount, likeReq,
                 adminVars, stmtVars, threadVars>>

SqlDeleteLike(caller, user_id, blog_id) ==
  /\ DeleteLike(caller, user_id, blog_id)
  /\ UNCHANGED <<siteVars, profiles, now, comments, isLiked, likesCount, likeReq,
                 adminVars, stmtVars, threadVars>>

(* INSERT INTO comments: the outcome and the tables after it. *)
InsertComment(caller, author_id, blog_id, parent_id) ==
  LET row == [id |-> nextId + 1, blog_id |-> blog_id, author_id |-> author_id,
              parent_id |-> parent_id]
      res == IF caller # Owner /\ ~ CommentsInsertPolicy(caller, row) THEN "rls_violation"
             ELSE IF ~ CommentsForeignKeys(comments, row) THEN "fk_violation"
             ELSE "inserted"
  IN /\ lastResult' = res
     /\ IF res = "inserted"
        THEN /\ comments' = comments \cup {row}
             /\ nextId' = nextId + 1
             /\ blogs' = ForEachRow(blogs, "comments", "INSERT", {row})
        ELSE UNCHANGED <<comments, nextId, blogs>>

(* INSERT INTO comments, sent directly to the database. *)
SqlInsertComment(caller, author_id, blog_id, parent_id) ==
  /\ nextId < MaxRows
  /\ InsertComment(caller, author_id, blog_id, parent_id)
  /\ UNCHANGED <<siteVars, profiles, now, likes, isLiked, likesCount, likeReq,
                    adminVars, stmtVars, threadVars>>

(* DELETE FROM comments WHERE id = ..: comments has no DELETE policy, so only
   the owner's statement affects a row; replies go with their parent. *)
SqlDeleteComment(caller, id) ==
  LET rows == IF caller = Owner THEN Cascade(comments, {c \in comments : c.id = id})
              ELSE {}
  IN /\ lastResult' = IF rows = {} THEN "no_rows" ELSE "deleted"
     /\ comments' = comments \ rows
     /\ blogs' = ForEachRow(blogs, "comments", "DELETE", rows)
     /\ UNCHANGED <<siteVars, profiles, now, likes, nextId, isLiked, likesCount, likeReq,
                    adminVars, stmtVars, threadVars>>

(***************************************************************************)
(* The blog page: the like button.                                         *)
(***************************************************************************)

(* The signed-in user of a blog page tab, and the blog it shows: tabs 1 and
   2 belong to the same user, and every tab shows a blog of its user. *)
ViewUser(v) == IF v <= 2 THEN NumUsers ELSE ((v - 1) % NumUsers) + 1
ViewBlog(v) == CHOOSE b \in BlogIds : NewBlog(b).author_id = ProfileId(ViewUser(v))

(* handleLike up to its await: the request follows the local isLiked. *)
handleLike(v) ==
  /\ likeReq[v] = "none"
  /\ likeReq' = [likeReq EXCEPT ![v] = IF isLiked[v] THEN "delete" ELSE "insert"]
  /\ UNCHANGED <<siteVars, profiles, blogs, now, likes, comments, nextId, lastResult,
                 isLiked, likesCount, adminVars, stmtVars, threadVars>>

(* A handler that loads the like state again after its request. *)
AfterLike_Refetched(v, liked) ==
  [isLiked |-> \E l \in likes' : l.user_id = ViewUser(v) /\ l.blog_id = ViewBlog(v),
   likesCount |-> blogs'[ViewBlog(v)].likes_count]

(* setIsLiked(liked); setLikesCount(prev => prev + 1) or (prev => prev - 1) *)
AfterLike(v, liked) ==
  [isLiked |-> liked,
   likesCount |-> IF liked THEN likesCount[v] + 1 ELSE likesCount[v] - 1]

(* The database executes the request, sent with user.id as user_id, and
   handleLike resumes: the result of the await is not looked at. *)
handleLikeResume(v) ==
  /\ likeReq[v] # "none"
  /\ IF likeReq[v] = "insert"
     THEN /\ nextId < MaxRows
          /\ InsertLike(ViewUser(v), ViewUser(v), ViewBlog(v))
     ELSE DeleteLike(ViewUser(v), ViewUser(v), ViewBlog(v))
  /\ isLiked' = [isLiked EXCEPT ![v] = AfterLike(v, likeReq[v] = "insert").isLiked]
  /\ likesCount' = [likesCount EXCEPT ![v] = AfterLike(v, likeReq[v] = "insert").likesCount]
  /\ likeReq' = [likeReq EXCEPT ![v] = "none"]
  /\ UNCHANGED <<siteVars, profiles, now, comments, adminVars, stmtVars, threadVars>>

(* The statements sent directly: by the owner, or by a user for the user's
   own profile. *)
SqlInsertLikeStep ==
  \E p \in ProfileIds, b \in BlogIds : \E caller \in {Owner, UserOf(p)} :
    SqlInsertLike(caller, p, b)
SqlDeleteLikeStep ==
  \E p \in ProfileIds, b \in BlogIds : \E caller \in {Owner, UserOf(p)} :
    SqlDeleteLike(caller, p, b)
SqlInsertCommentStep ==
  \E p \in ProfileIds, b \in BlogIds, parent \in 0 .. MaxRows :
    \E caller \in {Owner, UserOf(p)} : SqlInsertComment(caller, p, b, parent)
SqlDeleteCommentStep ==
  \E caller \in Callers, id \in 1 .. MaxRows : SqlDeleteComment(caller, id)
HandleLikeStep == \E v \in Views : handleLike(v)
HandleLikeResumeStep == \E v \in Views : handleLikeResume(v)

(* Statements on likes and comments, in any order. *)
NextStats ==
  \/ SqlInsertLikeStep
  \/ SqlDeleteLikeStep
  \/ SqlInsertCommentStep
  \/ SqlDeleteCommentStep

SpecStats ==
  /\ Init
  /\ [][NextStats]_vars

(* The like button in every tab, next to direct statements on likes. *)
NextLikes ==
  \/ SqlInsertLikeStep
  \/ SqlDeleteLikeStep
  \/ HandleLikeStep
  \/ HandleLikeResumeStep

SpecLikes ==
  /\ Init
  /\ [][NextLikes]_vars

(***************************************************************************)
(* The comment section: thread assembly in fetchComments.                  *)
(***************************************************************************)

(* An id no row of any query result carries. *)
AbsentId == MaxComments + 1

(* The query results: up to MaxComments rows with distinct ids, in ascending
   created_at order; parent_id is NULL, the id of a row of the result or of a
   comment outside it (a comment of another blog). *)
QueryResults ==
  UNION {{[k \in 1 .. n |-> [id |-> ids[k], parent_id |-> ps[k], created_at |-> k]] :
            ids \in {f \in [1 .. n -> 1 .. MaxComments] :
                       \A a, b \in 1 .. n : f[a] = f[b] => a = b},
            ps \in [1 .. n -> 0 .. AbsentId]} : n \in 0 .. MaxComments}

(* commentMap.set(comment.id, { ...comment, replies: [] }) *)
FirstPass(comment, map, reps) ==
  [commentMap |-> (comment.id :> comment) @@ map,
   replies |-> (comment.id :> << >>) @@ reps]

(* unshift instead of push. *)
Push_Unshift(array, id) == <<id>> \o array

(* parent.replies.push(node) *)
Push(array, id) == Append(array, id)

(* A second pass that keeps one level: a reply is attached only to a parent
   that is itself a root. *)
SecondPass_OneLevel(comment, map, reps, roots) ==
  IF comment.parent_id # NULL
  THEN IF comment.parent_id \in DOMAIN map /\ map[comment.parent_id].parent_id = NULL
       THEN [replies |-> [reps EXCEPT ![comment.parent_id] = Append(@, comment.id)],
             rootComments |-> roots]
       ELSE [replies |-> reps, rootComments |-> roots]
  ELSE [replies |-> reps, rootComments |-> Append(roots, comment.id)]

(* A second pass that lists every comment among the roots as well. *)
SecondPass_EveryoneRoot(comment, map, reps, roots) ==
  [replies |-> IF comment.parent_id # NULL /\ comment.parent_id \in DOMAIN map
               THEN [reps EXCEPT ![comment.parent_id] = Push(@, comment.id)]
               ELSE reps,
   rootComments |-> Push(roots, comment.id)]

(* The body of the second forEach. *)
SecondPass(comment, map, reps, roots) ==
  IF comment.parent_id # NULL
  THEN IF comment.parent_id \in DOMAIN map
       THEN [replies |-> [reps EXCEPT ![comment.parent_id] = Push(@, comment.id)],
             rootComments |-> roots]
       ELSE [replies |-> reps, rootComments |-> roots]
  ELSE [replies |-> reps, rootComments |-> Push(roots, comment.id)]

(* The query of the mounted comment section returns. *)
fetchComments(rows) ==
  /\ tpc.pass = "idle"
  /\ data' = rows
  /\ commentMap' = << >>
  /\ replies' = << >>
  /\ rootComments' = << >>
  /\ tpc' = [pass |-> "first", i |-> 1]
  /\ UNCHANGED <<siteVars, profiles, blogs, now, adminVars, stmtVars, statsVars>>

(* One row of the first forEach. *)
FirstPassStep ==
  /\ tpc.pass = "first"
  /\ IF tpc.i <= Len(data)
     THEN LET r == FirstPass(data[tpc.i], commentMap, replies)
          IN /\ commentMap' = r.commentMap
             /\ replies' = r.replies
             /\ tpc' = [tpc EXCEPT !.i = @ + 1]
     ELSE /\ tpc' = [pass |-> "second", i |-> 1]
          /\ UNCHANGED <<commentMap, replies>>
  /\ UNCHANGED <<siteVars, profiles, blogs, now, adminVars, stmtVars, statsVars, data, rootComments>>

(* One row of the second forEach; after the last, setComments(rootComments). *)
SecondPassStep ==
  /\ tpc.pass = "second"
  /\ IF tpc.i <= Len(data)
     THEN LET r == SecondPass(data[tpc.i], commentMap, replies, rootComments)
          IN /\ replies' = r.replies
             /\ rootComments' = r.rootComments
             /\ tpc' = [tpc EXCEPT !.i = @ + 1]
     ELSE /\ tpc' = [pass |-> "done", i |-> 0]
          /\ UNCHANGED <<replies, rootComments>>
  /\ UNCHANGED <<siteVars, profiles, blogs, now, adminVars, stmtVars, statsVars, data, commentMap>>

FetchCommentsStep ==
  /\ tpc.pass = "idle"
  /\ \E rows \in QueryResults : fetchComments(rows)

NextThread ==
  \/ FetchCommentsStep
  \/ FirstPassStep
  \/ SecondPassStep

SpecThread ==
  /\ Init
  /\ [][NextThread]_vars

(***************************************************************************)
(* The comment section: rendering the assembled forest.                    *)
(***************************************************************************)

(* comments.map(comment => <CommentItem comment={comment} />): React starts
   to render the list that setComments stored. *)
RenderComments ==
  /\ tpc.pass = "done"
  /\ rendering.pc = "idle"
  /\ rendering' = [pc |-> "run", stack |-> rootComments, out |-> << >>]
  /\ UNCHANGED <<profiles, blogs, now, adminVars, stmtVars, statsVars, threadVars,
                 edgeVars, uiVars, accountVars, section, blogView>>

(* One CommentItem: the comment's card, then a CommentItem for each of its
   replies before the next sibling. *)
CommentItem ==
  /\ rendering.pc = "run"
  /\ IF rendering.stack = << >>
     THEN rendering' = [rendering EXCEPT !.pc = "done"]
     ELSE LET comment == Head(rendering.stack)
          IN rendering' = [rendering EXCEPT
                             !.stack = replies[comment] \o Tail(rendering.stack),
                             !.out = Append(@, comment)]
  /\ UNCHANGED <<profiles, blogs, now, adminVars, stmtVars, statsVars, threadVars,
                 edgeVars, uiVars, accountVars, section, blogView>>

(* The comment section from the query's return to the rendered list. *)
NextRender ==
  \/ FetchCommentsStep
  \/ FirstPassStep
  \/ SecondPassStep
  \/ RenderComments
  \/ CommentItem

SpecRender ==
  /\ Init
  /\ [][NextRender]_vars

(***************************************************************************)
(* The comment section: its forms.                                         *)
(***************************************************************************)

(* .eq('blog_id', blogId).order('created_at', { ascending: true }): ids are
   handed out in the order of creation. *)
RECURSIVE OrderByCreatedAt(_)
OrderByCreatedAt(rows) ==
  IF rows = {} THEN << >>
  ELSE LET first == CHOOSE c \in rows : \A d \in rows : c.id <= d.id
       IN <<first>> \o OrderByCreatedAt(rows \ {first})

SelectComments(blogId) == OrderByCreatedAt({c \in comments : c.blog_id = blogId})

(* The two forEach loops of fetchComments over a whole result. *)
RECURSIVE ForEachFirst(_, _)
ForEachFirst(rows, acc) ==
  IF rows = << >> THEN acc
  ELSE ForEachFirst(Tail(rows), FirstPass(Head(rows), acc.commentMap, acc.replies))

RECURSIVE ForEachSecond(_, _, _)
ForEachSecond(rows, map, acc) ==
  IF rows = << >> THEN acc
  ELSE ForEachSecond(Tail(rows), map,
                     SecondPass(Head(rows), map, acc.replies, acc.rootComments))

Threads(rows) ==
  LET first == ForEachFirst(rows, [commentMap |-> << >>, replies |-> << >>])
  IN ForEachSecond(rows, first.commentMap,
                   [replies |-> first.replies, rootComments |-> << >>])

(* A comment list with a Reply button on every comment. *)
ReplyButtons_OnReplies(s) == DOMAIN s.replies

(* {!isReply && <Button onClick={() => setReplyTo(...)}>}: the comments of
   the list that show a Reply button are the top-level ones. *)
ReplyButtons(s) == {s.comments[k] : k \in 1 .. Len(s.comments)}

(* The comments of the list a CommentItem is rendered for. *)
RECURSIVE Rendered(_, _)
Rendered(s, ids) ==
  LET more == UNION {{s.replies[n][k] : k \in 1 .. Len(s.replies[n])} : n \in ids} \ ids
  IN IF more = {} THEN ids ELSE Rendered(s, ids \cup more)

(* comments.reduce((total, comment) => total + 1 + (comment.replies?.length || 0), 0) *)
RECURSIVE Reduce(_, _)
Reduce(s, array) ==
  IF array = << >> THEN 0
  ELSE 1 + Len(s.replies[Head(array)]) + Reduce(s, Tail(array))

HeaderCount(s) == Reduce(s, s.comments)

(* The query of fetchComments returns to the section of tab t: setComments
   with the assembled roots, or the state as it was after an error. *)
fetchCommentsReturn(t, ok) ==
  LET rows == SelectComments(ViewBlog(t))
  IN /\ section[t].pc \in {"loading", "refetch"}
     /\ section' = [section EXCEPT ![t] =
          IF ok
          THEN [@ EXCEPT !.comments = Threads(rows).rootComments,
                         !.replies = Threads(rows).replies,
                         !.rows = Len(rows), !.pc = "ready"]
          ELSE [@ EXCEPT !.pc = "ready"]]
     /\ UNCHANGED <<profiles, blogs, now, adminVars, stmtVars, statsVars, threadVars,
                    edgeVars, uiVars, accountVars, rendering, blogView>>

(* A click on the Reply button of a comment. *)
ClickReply(t, id) ==
  /\ id \in ReplyButtons(section[t])
  /\ section' = [section EXCEPT ![t].replyTo = IF @ = id THEN NULL ELSE id]
  /\ UNCHANGED <<profiles, blogs, now, adminVars, stmtVars, statsVars, threadVars,
                 edgeVars, uiVars, accountVars, rendering, blogView>>

(* The Cancel button of the reply form. *)
CancelReply(t) ==
  /\ section[t].replyTo \in Rendered(section[t], ReplyButtons(section[t]))
  /\ section' = [section EXCEPT ![t].replyTo = NULL]
  /\ UNCHANGED <<profiles, blogs, now, adminVars, stmtVars, statsVars, threadVars,
                 edgeVars, uiVars, accountVars, rendering, blogView>>

(* handleSubmitComment (parentId NULL) and handleSubmitReply up to the
   return of the insert: sent with profile.id as author; after an error the
   toast, else the forms are cleared and fetchComments is called. *)
SubmitComment(t, parentId) ==
  /\ section[t].pc = "ready"
  /\ nextId < MaxRows
  /\ InsertComment(ViewUser(t), ProfileId(ViewUser(t)), ViewBlog(t), parentId)
  /\ section' = [section EXCEPT ![t] =
       IF lastResult' = "inserted"
       THEN [@ EXCEPT !.pc = "refetch",
                      !.replyTo = IF parentId = NULL THEN @ ELSE NULL]
       ELSE @]
  /\ UNCHANGED <<profiles, now, likes, isLiked, likesCount, likeReq, adminVars,
                 stmtVars, threadVars, edgeVars, uiVars, accountVars, rendering, blogView>>

handleSubmitComment(t) == SubmitComment(t, NULL)

(* The reply form is part of the CommentItem whose id is replyTo. *)
handleSubmitReply(t) ==
  /\ section[t].replyTo \in Rendered(section[t], ReplyButtons(section[t]))
  /\ SubmitComment(t, section[t].replyTo)

FetchCommentsReturnStep == \E t \in Views, ok \in BOOLEAN : fetchCommentsReturn(t, ok)
ClickReplyStep == \E t \in Views, id \in 1 .. MaxRows : ClickReply(t, id)
CancelReplyStep == \E t \in Views : CancelReply(t)
HandleSubmitCommentStep == \E t \in Views : handleSubmitComment(t)
HandleSubmitReplyStep == \E t \in Views : handleSubmitReply(t)

NextSection ==
  \/ FetchCommentsReturnStep
  \/ ClickReplyStep
  \/ CancelReplyStep
  \/ HandleSubmitCommentStep
  \/ HandleSubmitReplyStep

SpecSection ==
  /\ Init
  /\ [][NextSection]_vars

(***************************************************************************)
(* Statements on profiles.                                                 *)
(***************************************************************************)

(* "Users can update their own profile": USING (auth.uid() = user_id), no
   WITH CHECK and no column named, so the same expression is checked on the
   row as updated. *)
ProfilesUpdatePolicy(uid, row) == uid = row.user_id

(* CHECK (role IN ('blogger', 'admin')) and UNIQUE (user_id). *)
ProfilesCheck(tbl, p, row) ==
  /\ row.role \in {"blogger", "admin"}
  /\ \A q \in DOMAIN tbl \ {p} : tbl[q].user_id # row.user_id

(* The payloads of a PATCH on profiles. *)
ProfilePayloads ==
  {[role |-> r] : r \in {"blogger", "admin", "owner"}}
    \cup {[user_id |-> u] : u \in Users}

(* PATCH /profiles?id=eq.p by the caller: a row the policy hides is not
   updated; a row that violates the policy or a constraint after the update
   aborts the statement. *)
ApiUpdateProfile(uid, p, payload) ==
  LET row == Merge(profiles[p], payload)
      visible == uid = Owner \/ ProfilesUpdatePolicy(uid, profiles[p])
      allowed == (uid = Owner \/ ProfilesUpdatePolicy(uid, row)) /\ ProfilesCheck(profiles, p, row)
  IN /\ profiles' = IF visible /\ allowed THEN [profiles EXCEPT ![p] = row] ELSE profiles
     /\ lastProfile' = [caller |-> uid, profile |-> p, payload |-> payload]
     /\ UNCHANGED <<siteVars, blogs, now, adminVars, lastStmt, statsVars, threadVars>>

ApiUpdateProfileStep ==
  \E uid \in Callers, p \in ProfileIds, payload \in ProfilePayloads :
    ApiUpdateProfile(uid, p, payload)

NextProfiles == ApiUpdateProfileStep

SpecProfiles ==
  /\ Init
  /\ [][NextProfiles]_vars

(***************************************************************************)
(* The edge functions: send-notifications and summarize-article.           *)
(***************************************************************************)

MaxRequests == 2

(* The JSON bodies a client posts to send-notifications. *)
NotifyBodies ==
  [type : NotificationTypes \cup {Undefined, "", "digest"},
   recipientEmail : {Undefined, ""} \cup {EmailOf(u) : u \in Users},
   recipientName : {Undefined, "", "name"},
   blogTitle : {"v1"}]

(* The requests: a CORS preflight, a body that is not JSON, a JSON body. *)
NotifyRequests ==
  {[method |-> "OPTIONS", json |-> FALSE, body |-> << >>],
   [method |-> "POST", json |-> FALSE, body |-> << >>]}
    \cup {[method |-> "POST", json |-> TRUE, body |-> b] : b \in NotifyBodies}

(* Whether the handler reaches resend.emails.send. *)
handlerSends(body) ==
  /\ ~ (Falsy(body.type) \/ Falsy(body.recipientEmail) \/ Falsy(body.recipientName))
  /\ body.type \in NotificationTypes

(* The message of the error the handler's catch block answers with. *)
handlerError(body, providerOk) ==
  IF Falsy(body.type) \/ Falsy(body.recipientEmail) \/ Falsy(body.recipientName)
  THEN "Missing required fields"
  ELSE IF body.type \notin NotificationTypes THEN "Invalid notification type"
  ELSE IF providerOk THEN "" ELSE "provider error"

(* The response of send-notifications to a request. *)
NotifyResponse(req, providerOk) ==
  IF req.method = "OPTIONS" THEN [status |-> 200, error |-> "", sent |-> FALSE]
  ELSE IF ~ req.json THEN [status |-> 500, error |-> "not JSON", sent |-> FALSE]
  ELSE [status |-> handler(req.body, providerOk),
        error |-> handlerError(req.body, providerOk),
        sent |-> handlerSends(req.body)]

(* send-notifications serves a request. *)
ServeNotification(req, providerOk) ==
  /\ outbox < MaxRequests
  /\ notification' = [request |-> req, response |-> NotifyResponse(req, providerOk)]
  /\ outbox' = IF notification'.response.sent THEN outbox + 1 ELSE outbox
  /\ UNCHANGED <<profiles, blogs, now, adminVars, stmtVars, statsVars, threadVars,
                 summarization, upstreamCalls, uiVars, accountVars, viewVars>>

(* The requests to summarize-article: the body is no JSON, JSON null, or an
   object whose content is absent, empty or a text. *)
SummarizeRequests ==
  {[method |-> "OPTIONS", json |-> "object", content |-> Undefined],
   [method |-> "POST", json |-> "invalid", content |-> Undefined],
   [method |-> "POST", json |-> "null", content |-> Undefined]}
    \cup {[method |-> "POST", json |-> "object", content |-> c] :
            c \in {Undefined, "", "article"}}

(* Deno.env.get('GEMINI_API_KEY') *)
ApiKeys == {Undefined, "", "key"}

(* What the LLM API does with a call: the fetch throws, the status is not
   OK, or it is OK with a body whose first candidate has no text, an empty
   text or a text. *)
Upstreams ==
  {[ok |-> "throws", text |-> Undefined], [ok |-> "no", text |-> Undefined]}
    \cup {[ok |-> "yes", text |-> t] : t \in {Undefined, "", "summary"}}

(* The response of summarize-article; called says whether fetch was reached. *)
SummarizeResponse(req, apiKey, upstream) ==
  IF req.method = "OPTIONS"
  THEN [status |-> 200, error |-> "", summary |-> Undefined, called |-> FALSE]
  ELSE IF req.json # "object"
  THEN [status |-> 500, error |-> "Internal server error", summary |-> Undefined,
        called |-> FALSE]
  ELSE IF Falsy(req.content)
  THEN [status |-> 400, error |-> "Content is required", summary |-> Undefined,
        called |-> FALSE]
  ELSE IF Falsy(apiKey)
  THEN [status |-> 500, error |-> "API key not configured", summary |-> Undefined,
        called |-> FALSE]
  ELSE IF upstream.ok = "throws"
  THEN [status |-> 500, error |-> "Internal server error", summary |-> Undefined,
        called |-> TRUE]
  ELSE IF upstream.ok = "no" \/ Falsy(upstream.text)
  THEN [status |-> 500, error |-> "Failed to generate summary", summary |-> Undefined,
        called |-> TRUE]
  ELSE [status |-> 200, error |-> "", summary |-> upstream.text, called |-> TRUE]

(* summarize-article serves a request. *)
ServeSummarize(req, apiKey, upstream) ==
  /\ upstreamCalls < MaxRequests
  /\ summarization' = [request |-> req, apiKey |-> apiKey, upstream |-> upstream,
                       response |-> SummarizeResponse(req, apiKey, upstream)]
  /\ upstreamCalls' = IF summarization'.response.called THEN upstreamCalls + 1
                      ELSE upstreamCalls
  /\ UNCHANGED <<profiles, blogs, now, adminVars, stmtVars, statsVars, threadVars,
                 notification, outbox, uiVars, accountVars, viewVars>>

ServeNotificationStep ==
  \E req \in NotifyRequests, providerOk \in BOOLEAN : ServeNotification(req, providerOk)
ServeSummarizeStep ==
  \E req \in SummarizeRequests, apiKey \in ApiKeys, upstream \in Upstreams :
    ServeSummarize(req, apiKey, upstream)

NextNotify == ServeNotificationStep

SpecNotify ==
  /\ Init
  /\ [][NextNotify]_vars

NextSummarize == ServeSummarizeStep

SpecSummarize ==
  /\ Init
  /\ [][NextSummarize]_vars

(***************************************************************************)
(* The requests each user action issues.                                   *)
(***************************************************************************)

UiActions ==
  {"pageLoad", "handleLike", "handleBookmark", "handleSubmitComment",
   "handleSubmitReply", "handleSubmit", "updateBlogStatus"}

(* What a handler's control flow depends on: a signed-in user with a
   profile; a text that is not empty after trimming; the first request
   succeeding; the React state (blog set, isLiked or isBookmarked) of the
   render that runs the handler; the status argument being 'approved'. *)
TripInputs ==
  [signedIn : BOOLEAN, filled : BOOLEAN, ok : BOOLEAN, loaded : BOOLEAN,
   isOn : BOOLEAN, approve : BOOLEAN]

(* A submit handler that leaves the list as it is. *)
Refetch_None(ok) == << >>

(* await fetchComments() after an insert that returned no error. *)
Refetch(ok) == IF ok THEN <<"select comments">> ELSE << >>

(* fetchStats: four selects in one Promise.all. *)
fetchStats ==
  <<"select blogs", "select blogs", "select profiles", "select blogs">>

(* The requests a handler issues, in the order it issues them. *)
Requests(name, in) ==
  CASE name = "pageLoad" ->
         <<"select blogs">>
           \o (IF in.signedIn /\ in.loaded
               THEN <<"select likes", "select bookmarks">> ELSE << >>)
           \o (IF in.ok THEN <<"update blogs">> ELSE << >>)
           \o (IF in.ok /\ ~ in.loaded THEN <<"select comments">> ELSE << >>)
    [] name = "handleLike" ->
         IF ~ in.signedIn \/ ~ in.loaded THEN << >>
         ELSE IF in.isOn THEN <<"delete likes">> ELSE <<"insert likes">>
    [] name = "handleBookmark" ->
         IF ~ in.signedIn \/ ~ in.loaded THEN << >>
         ELSE IF in.isOn THEN <<"delete bookmarks">> ELSE <<"insert bookmarks">>
    [] name \in {"handleSubmitComment", "handleSubmitReply"} ->
         IF ~ in.signedIn \/ ~ in.filled THEN << >>
         ELSE <<"insert comments">> \o Refetch(in.ok)
    [] name = "handleSubmit" ->
         IF ~ in.signedIn \/ (version = 2 /\ ~ in.filled) THEN << >>
         ELSE <<"insert blogs">>
    [] name = "updateBlogStatus" ->
         <<"update blogs">>
           \o (IF in.ok /\ version = 2 /\ in.approve
               THEN <<"invoke send-notifications">> ELSE << >>)
           \o (IF in.ok /\ version = 2 THEN fetchStats ELSE << >>)

(* A user action runs to its end. *)
Perform(name, in) ==
  /\ trips' = [action |-> name, input |-> in, requests |-> Requests(name, in)]
  /\ UNCHANGED <<profiles, blogs, now, adminVars, stmtVars, statsVars, threadVars,
                 edgeVars, accountVars, viewVars, lastSubmit, page, lastRead>>

PerformStep == \E name \in UiActions, in \in TripInputs : Perform(name, in)

NextRoundTrips == PerformStep

SpecRoundTrips ==
  /\ Init
  /\ [][NextRoundTrips]_vars

(***************************************************************************)
(* Reading blogs: the queries of the public views and of the REST API.     *)
(***************************************************************************)

(* auth.uid() of a request without a session: NULL, equal to no user_id. *)
Anon == -1

(* The views that select from blogs: the REST API without a filter, the home
   page lists, the search results and the blog page by slug. *)
BlogViews == {"api", "home", "search", "page"}

(* The filters of a blogView's query: .eq('status', 'approved') in the public
   views, with .eq('slug', slug) on the blog page. *)
QueryFilter(view, slug, b, row) ==
  CASE view = "api" -> TRUE
    [] view \in {"home", "search"} -> row.status = "approved"
    [] view = "page" -> b = slug /\ row.status = "approved"

(* The rows a select on blogs returns to the caller. *)
SelectBlogs(uid, view, slug) ==
  {b \in DOMAIN blogs :
     BlogsSelectPolicy(uid, blogs[b]) /\ QueryFilter(view, slug, b, blogs[b])}

(* A blogView's query runs for a caller. *)
Select(uid, view, slug) ==
  /\ lastRead' = [caller |-> uid, view |-> view, rows |-> SelectBlogs(uid, view, slug)]
  /\ UNCHANGED <<profiles, blogs, now, adminVars, stmtVars, statsVars, threadVars,
                 edgeVars, accountVars, viewVars, lastSubmit, trips, page>>

(* The dashboard's update statement, sent by the admin. *)
SetStatusStep ==
  \E b \in BlogIds, s \in {"approved", "rejected"} :
    ApiUpdateBlog(AdminUser, b, StatusPayload(s, now + 1))

SelectStep ==
  \E uid \in Users \cup {Anon}, view \in BlogViews, slug \in BlogIds :
    Select(uid, view, slug)

NextRead ==
  \/ SetStatusStep
  \/ SelectStep

SpecRead ==
  /\ Init
  /\ [][NextRead]_vars

(***************************************************************************)
(* The blog page: loading the blog and counting the view.                  *)
(***************************************************************************)

(* An update that lets the database add one. *)
ViewsPayload_Atomic(row, read) == [views_count |-> row.views_count + 1]

(* { views_count: (data.views_count || 0) + 1 } *)
ViewsPayload(row, read) == [views_count |-> read + 1]

(* The effect of a mounted blog page starts fetchBlog. *)
fetchBlog(v) ==
  /\ page[v].pc = "idle"
  /\ page' = [page EXCEPT ![v].pc = "select"]
  /\ UNCHANGED <<profiles, blogs, now, adminVars, stmtVars, statsVars, threadVars,
                 edgeVars, accountVars, viewVars, lastSubmit, trips, lastRead>>

(* The select by slug with status = 'approved' returns: with a row, setBlog
   and setLikesCount and the update of views_count is sent; without (no row
   or an error), the toast and the way back to the home page. *)
fetchBlogSelect(v, ok) ==
  LET b == ViewBlog(v)
      found == ok /\ SelectBlogs(ViewUser(v), "page", b) = {b}
  IN /\ page[v].pc = "select"
     /\ IF found
        THEN /\ page' = [page EXCEPT ![v] =
                  [pc |-> "update", blog |-> b, read |-> blogs[b].views_count]]
             /\ likesCount' = [likesCount EXCEPT ![v] = blogs[b].likes_count]
        ELSE /\ page' = [page EXCEPT ![v].pc = "notFound"]
             /\ UNCHANGED likesCount
     /\ UNCHANGED <<profiles, blogs, now, adminVars, stmtVars, likes, comments,
                    nextId, lastResult, isLiked, likeReq, threadVars, edgeVars,
                    accountVars, viewVars, lastSubmit, trips, lastRead>>

(* The database executes the update of views_count under the policies of
   blogs; its result is not looked at. *)
fetchBlogUpdate(v, ok) ==
  /\ page[v].pc = "update"
  /\ page' = [page EXCEPT ![v].pc = "done"]
  /\ blogs' = IF ok
              THEN [blogs EXCEPT ![page[v].blog] =
                      UpdatedRow(ViewUser(v), @, ViewsPayload(@, page[v].read), now)]
              ELSE blogs
  /\ UNCHANGED <<profiles, now, adminVars, stmtVars, statsVars, threadVars,
                 edgeVars, accountVars, viewVars, lastSubmit, trips, lastRead>>

FetchBlogStep == \E v \in Views : fetchBlog(v)
FetchBlogSelectStep == \E v \in Views, ok \in BOOLEAN : fetchBlogSelect(v, ok)
FetchBlogUpdateStep == \E v \in Views, ok \in BOOLEAN : fetchBlogUpdate(v, ok)

NextViews ==
  \/ SetStatusStep
  \/ FetchBlogStep
  \/ FetchBlogSelectStep
  \/ FetchBlogUpdateStep

SpecViews ==
  /\ Init
  /\ [][NextViews]_vars

MaxLoads == 2

(* The tab opens its blog page anew (a reload or a later visit) after a load
   has ended: the component mounts with its initial state.  The visits are
   capped by the counter they raise. *)
Revisit(v) ==
  /\ page[v].pc \in {"done", "notFound"}
  /\ blogs[ViewBlog(v)].views_count < MaxLoads
  /\ page' = [page EXCEPT ![v] = [pc |-> "idle", blog |-> 0, read |-> 0]]
  /\ isLiked' = [isLiked EXCEPT ![v] = FALSE]
  /\ likesCount' = [likesCount EXCEPT ![v] = 0]
  /\ UNCHANGED <<profiles, blogs, now, adminVars, stmtVars, likes, comments,
                 nextId, lastResult, likeReq, threadVars, edgeVars,
                 accountVars, viewVars, lastSubmit, trips, lastRead>>

RevisitStep == \E v \in Views : Revisit(v)

(* Page loads, one after another in a tab and interleaved between tabs. *)
NextVisits ==
  \/ SetStatusStep
  \/ FetchBlogStep
  \/ FetchBlogSelectStep
  \/ FetchBlogUpdateStep
  \/ RevisitStep

SpecVisits ==
  /\ Init
  /\ [][NextVisits]_vars

(***************************************************************************)
(* The blog page: its effect, request by request.                          *)
(***************************************************************************)

(* The blog page tabs whose load is followed request by request. *)
LoadTabs == Views \cap Tabs

(* auth.uid() of the tab's requests: the session's user once useAuth has
   delivered it. *)
Caller(v) == IF blogView[v].user THEN ViewUser(v) ELSE Anon

(* The effect of [slug, user] runs: fetchBlog() is called, and with a user
   checkIfLiked(), which returns at once when the blog of the render it
   belongs to is null and else sends its select. *)
Effect(st, user) ==
  [st EXCEPT !.user = user,
             !.runs = @ + 1,
             !.fetches = @ \cup {[run |-> st.runs + 1, pc |-> "select", read |-> 0]},
             !.check = @ \/ (user /\ st.blog # 0)]

(* The page mounts, with or without a user delivered by useAuth. *)
Mount(v, user) ==
  /\ ~ blogView[v].mounted
  /\ blogView' = [blogView EXCEPT ![v] = Effect([@ EXCEPT !.mounted = TRUE], user)]
  /\ UNCHANGED <<profiles, blogs, now, adminVars, stmtVars, statsVars, threadVars,
                 edgeVars, uiVars, accountVars, rendering, section>>

(* useAuth delivers the user of the session after the mount. *)
AuthResolves(v) ==
  /\ blogView[v].mounted /\ ~ blogView[v].user
  /\ blogView' = [blogView EXCEPT ![v] = Effect(@, TRUE)]
  /\ UNCHANGED <<profiles, blogs, now, adminVars, stmtVars, statsVars, threadVars,
                 edgeVars, uiVars, accountVars, rendering, section>>

(* The select of a fetchBlog call returns: setBlog, setLikesCount and the
   update of views_count with a row; the toast, navigate('/') and
   setLoading(false) without. *)
fetchBlogReturns(v, call, ok) ==
  LET b == ViewBlog(v)
      found == ok /\ SelectBlogs(Caller(v), "page", b) = {b}
  IN /\ call \in blogView[v].fetches /\ call.pc = "select"
     /\ IF found
        THEN /\ blogView' = [blogView EXCEPT ![v].blog = b,
                           ![v].fetches = (@ \ {call}) \cup
                              {[call EXCEPT !.pc = "update", !.read = blogs[b].views_count]}]
             /\ likesCount' = [likesCount EXCEPT ![v] = blogs[b].likes_count]
        ELSE /\ blogView' = [blogView EXCEPT ![v].fetches = @ \ {call}, ![v].loading = FALSE,
                                     ![v].gone = TRUE]
             /\ UNCHANGED likesCount
     /\ UNCHANGED <<profiles, blogs, now, adminVars, stmtVars, likes, comments,
                    nextId, lastResult, isLiked, likeReq, threadVars, edgeVars,
                    uiVars, accountVars, rendering, section>>

(* The update of views_count of a fetchBlog call is executed; then
   setLoading(false). *)
viewsUpdateReturns(v, call, ok) ==
  /\ call \in blogView[v].fetches /\ call.pc = "update"
  /\ blogView' = [blogView EXCEPT ![v].fetches = @ \ {call}, ![v].loading = FALSE]
  /\ blogs' = IF ok
              THEN [blogs EXCEPT ![blogView[v].blog] =
                      UpdatedRow(Caller(v), @, ViewsPayload(@, call.read), now)]
              ELSE blogs
  /\ UNCHANGED <<profiles, now, adminVars, stmtVars, statsVars, threadVars,
                 edgeVars, uiVars, accountVars, rendering, section>>

(* Likes that are rows of the table for the ids checkIfLiked asks for:
   .eq('blog_id', blog.id).eq('user_id', user.id).single() *)
SelectLike(blog_id, user_id) ==
  {l \in likes : l.blog_id = blog_id /\ l.user_id = user_id}

(* The select of checkIfLiked returns: setIsLiked(!!data). *)
checkIfLikedReturns(v) ==
  /\ blogView[v].check
  /\ blogView' = [blogView EXCEPT ![v].check = FALSE]
  /\ isLiked' = [isLiked EXCEPT ![v] =
                   Cardinality(SelectLike(blogView[v].blog, ViewUser(v))) = 1]
  /\ UNCHANGED <<profiles, blogs, now, adminVars, stmtVars, likes, comments,
                 nextId, lastResult, likesCount, likeReq, threadVars, edgeVars,
                 uiVars, accountVars, rendering, section>>

(* A click on the like button of a page that shows its blog to a user. *)
ClickLike(v) ==
  /\ blogView[v].user /\ blogView[v].blog # 0 /\ ~ blogView[v].gone
  /\ handleLike(v)

MountStep == \E v \in LoadTabs, user \in BOOLEAN : Mount(v, user)
AuthResolvesStep == \E v \in LoadTabs : AuthResolves(v)
FetchBlogReturnsStep ==
  \E v \in LoadTabs, ok \in BOOLEAN : \E call \in blogView[v].fetches :
    fetchBlogReturns(v, call, ok)
ViewsUpdateReturnsStep ==
  \E v \in LoadTabs, ok \in BOOLEAN : \E call \in blogView[v].fetches :
    viewsUpdateReturns(v, call, ok)
CheckIfLikedReturnsStep == \E v \in LoadTabs : checkIfLikedReturns(v)
ClickLikeStep == \E v \in LoadTabs : ClickLike(v)
LikeResumeStep == \E v \in LoadTabs : handleLikeResume(v)

(* The admin approves a blog. *)
ApproveStep ==
  \E b \in BlogIds : ApiUpdateBlog(AdminUser, b, StatusPayload("approved", now + 1))

(* The load of a blog page, next to statements on likes. *)
NextLoad ==
  \/ ApproveStep
  \/ SqlInsertLikeStep
  \/ SqlDeleteLikeStep
  \/ MountStep
  \/ AuthResolvesStep
  \/ FetchBlogReturnsStep
  \/ ViewsUpdateReturnsStep
  \/ CheckIfLikedReturnsStep

SpecLoad ==
  /\ Init
  /\ [][NextLoad]_vars

(* The blog page with its like button. *)
NextPage ==
  \/ NextLoad
  \/ ClickLikeStep
  \/ LikeResumeStep

SpecPage ==
  /\ Init
  /\ [][NextPage]_vars

(***************************************************************************)
(* Accounts: the admin whitelist and the signup trigger.                   *)
(***************************************************************************)

MaxSignups == 1

(* E-mail addresses, as the sequences of their characters: three spellings
   of one address and another address. *)
Emails == {<<"a", "b">>, <<"A", "b">>, <<"a", "B">>, <<"c", "d">>}

(* lower() of a character and of a text. *)
LowerChar(c) ==
  CASE c = "A" -> "a" [] c = "B" -> "b" [] c = "C" -> "c" [] c = "D" -> "d"
    [] OTHER -> c

Lower(text) == [k \in 1 .. Len(text) |-> LowerChar(text[k])]

(* raw_user_meta_data->>'role' as the client may send it. *)
MetaRoles == {Undefined, "admin", "blogger"}

(* The superseded trigger function: the role the client asks for. *)
handle_new_user_FromMetadata(new, whitelist) ==
  IF new.role = Undefined THEN "blogger" ELSE new.role

(* handle_new_user: the role of the profile it inserts for the new user. *)
handle_new_user(new, whitelist) ==
  IF \E w \in whitelist : Lower(w) = Lower(new.email) THEN "admin" ELSE "blogger"

(* A policy that admits every signed-in user. *)
WhitelistPolicy_SignedIn(uid) == uid # Anon

(* "Only admins can manage admin whitelist", FOR ALL. *)
WhitelistPolicy(uid) == IsAdmin(uid)

(* A statement on admin_whitelist by uid: the rows it returns or affects,
   and the table after it.  email is the primary key. *)
WhitelistStatement(uid, op, email, to) ==
  LET seen == IF WhitelistPolicy(uid) THEN admin_whitelist ELSE {}
  IN CASE op = "select" -> [rows |-> seen, table |-> admin_whitelist]
       [] op = "insert" ->
            IF WhitelistPolicy(uid) /\ email \notin admin_whitelist
            THEN [rows |-> {email}, table |-> admin_whitelist \cup {email}]
            ELSE [rows |-> {}, table |-> admin_whitelist]
       [] op = "update" ->
            IF email \in seen /\ (to = email \/ to \notin admin_whitelist)
            THEN [rows |-> {to}, table |-> (admin_whitelist \ {email}) \cup {to}]
            ELSE [rows |-> {}, table |-> admin_whitelist]
       [] op = "delete" ->
            [rows |-> seen \cap {email}, table |-> admin_whitelist \ (seen \cap {email})]

(* The REST API executes a statement on admin_whitelist. *)
ApiWhitelist(uid, op, email, to) ==
  LET r == WhitelistStatement(uid, op, email, to)
  IN /\ admin_whitelist' = r.table
     /\ lastWl' = [caller |-> uid, op |-> op, email |-> email, rows |-> r.rows]
     /\ UNCHANGED <<profiles, blogs, now, adminVars, stmtVars, statsVars, threadVars,
                    edgeVars, uiVars, viewVars, authUsers>>

(* A signup: the row of auth.users and, by the trigger on_auth_user_created,
   the profile. *)
SignUp(email, role) ==
  LET id == 2 * NumUsers + Len(authUsers) + 1
      new == [id |-> id, email |-> email, role |-> role]
  IN /\ Len(authUsers) < MaxSignups
     /\ authUsers' = Append(authUsers, new)
     /\ profiles' = (ProfileId(id) :>
                       [user_id |-> id, role |-> handle_new_user(new, admin_whitelist)])
                      @@ profiles
     /\ UNCHANGED <<blogs, now, adminVars, stmtVars, statsVars, threadVars,
                    edgeVars, uiVars, viewVars, admin_whitelist, lastWl>>

ApiWhitelistStep ==
  \E uid \in Users \cup {Anon}, op \in {"select", "insert", "update", "delete"},
     email \in Emails, to \in Emails : ApiWhitelist(uid, op, email, to)
AdminWhitelistStep ==
  \E op \in {"insert", "delete"}, email \in Emails :
    ApiWhitelist(AdminUser, op, email, email)
SignUpStep == \E email \in Emails, role \in MetaRoles : SignUp(email, role)

NextWhitelist == ApiWhitelistStep

SpecWhitelist ==
  /\ Init
  /\ [][NextWhitelist]_vars

NextSignup ==
  \/ AdminWhitelistStep
  \/ SignUpStep

SpecSignup ==
  /\ Init
  /\ [][NextSignup]_vars

(***************************************************************************)
(* The article form: CreateBlog.                                           *)
(***************************************************************************)

MaxSubmits == 1

(* What the user types into a field: nothing, spaces only, or a letter with
   or without a space before or after it. *)
Texts == {<< >>, <<" ">>, <<" ", " ">>, <<"t">>, <<" ", "t">>, <<"t", " ">>}

(* String.prototype.trim *)
RECURSIVE TrimStart(_)
TrimStart(text) ==
  IF text # << >> /\ Head(text) = " " THEN TrimStart(Tail(text)) ELSE text

RECURSIVE TrimEnd(_)
TrimEnd(text) ==
  IF text # << >> /\ text[Len(text)] = " "
  THEN TrimEnd(SubSeq(text, 1, Len(text) - 1)) ELSE text

Trim(text) == TrimEnd(TrimStart(text))

(* The required attribute of the title and the content field: the browser
   fires the submit event only when neither is empty. *)
Required(form) == form.title # << >> /\ form.content # << >>

(* A handler that checks nothing. *)
Validates_Nothing(v, form) == TRUE

(* if (!formData.title.trim() || !formData.content.trim()) return; the first
   revision has no such check. *)
Validates(v, form) ==
  v = 1 \/ (Trim(form.title) # << >> /\ Trim(form.content) # << >>)

(* blogData with the defaults of the columns it does not name. *)
blogData(v, form, profile) ==
  [author_id |-> profile,
   title |-> IF v = 1 THEN form.title ELSE Trim(form.title),
   status |-> "pending", likes_count |-> 0, comments_count |-> 0,
   views_count |-> 0, updated_at |-> now, published_at |-> NULL]

(* "Authors can insert their own blogs", WITH CHECK. *)
BlogsInsertPolicy(uid, row) == IsAuthor(uid, row)

(* A click on the submit button by the signed-in user u: handleSubmit runs
   when the browser lets the form through, and inserts when its own check
   passes; the row is there when the policy admits it and the request did
   not fail. *)
handleSubmit(u, form, ok) ==
  LET id == Cardinality(DOMAIN blogs) + 1
      row == blogData(version, form, ProfileId(u))
      inserted == /\ Required(form) /\ Validates(version, form)
                  /\ ok /\ BlogsInsertPolicy(u, row)
  IN /\ lastSubmit.n < MaxSubmits
     /\ blogs' = IF inserted THEN (id :> row) @@ blogs ELSE blogs
     /\ lastSubmit' = [user |-> u, form |-> form, n |-> lastSubmit.n + 1,
                        id |-> IF inserted THEN id ELSE 0]
     /\ UNCHANGED <<profiles, now, adminVars, stmtVars, statsVars, threadVars,
                    edgeVars, accountVars, viewVars, trips, page, lastRead>>

HandleSubmitStep ==
  \E u \in Users, title \in Texts, content \in Texts, ok \in BOOLEAN :
    handleSubmit(u, [title |-> title, content |-> content], ok)

NextSubmit == HandleSubmitStep

SpecSubmit ==
  /\ Init
  /\ [][NextSubmit]_vars

(***************************************************************************)
(* The status workflow.                                                    *)
(***************************************************************************)

AllowedChanges ==
  {<<"pending", "approved">>, <<"pending", "rejected">>,
   <<"approved", "rejected">>, <<"rejected", "approved">>}

(* The step in which the database executes the update of call c. *)
Executes(c) == calls[c].pc = "update" /\ calls'[c].updated

(* C1, as stated: every status change made through the dashboard is one of
   pending->approved, pending->rejected, approved->rejected and
   rejected->approved; none leads to hidden or to pending. *)
C1_OnlyFourChanges ==
  [][\A b \in BlogIds :
       blogs'[b].status # blogs[b].status
         => <<blogs[b].status, blogs'[b].status>> \in AllowedChanges]_vars

(* C1, amended: no dashboard action moves a blog to pending; the later
   revisions make only the four changes; the first revision's Hide button
   moves a blog to hidden, and only that revision changes a status to or
   from hidden. *)
C1_ChangesByRevision ==
  [][\A b \in BlogIds :
       blogs'[b].status # blogs[b].status
         => /\ blogs'[b].status # "pending"
            /\ \/ <<blogs[b].status, blogs'[b].status>> \in AllowedChanges
               \/ /\ version = 1
                  /\ "hidden" \in {blogs[b].status, blogs'[b].status}]_vars

(* A rejected blog was approved again in revision 2. *)
C1_Witness ==
  \E c \in DOMAIN calls :
    /\ version = 2 /\ calls[c].updated
    /\ calls[c].blogs[calls[c].blogId].status = "rejected"
    /\ blogs[calls[c].blogId].status = "approved"

(* C3, as stated: a dashboard transition to rejected or hidden changes the
   status column of the row and nothing else. *)
C3_OnlyStatusChanges ==
  [][\A c \in DOMAIN calls :
       (Executes(c) /\ calls[c].status # "approved")
         => blogs' = [blogs EXCEPT ![calls[c].blogId].status = calls[c].status]]_vars

(* C3, amended: such a transition sets status, sets published_at to NULL and
   (by the trigger) updated_at to the statement's time; every other column
   of the row and every other row keep their values. *)
C3_StatusAndPublishedAt ==
  [][\A c \in DOMAIN calls :
       (Executes(c) /\ calls[c].status # "approved")
         => blogs' = [blogs EXCEPT ![calls[c].blogId].status = calls[c].status,
                                   ![calls[c].blogId].published_at = NULL,
                                   ![calls[c].blogId].updated_at = now']]_vars

(* An approved blog was unpublished: its published_at is NULL again. *)
C3_Witness ==
  \E c \in DOMAIN calls :
    /\ calls[c].updated /\ calls[c].status = "rejected"
    /\ calls[c].blogs[calls[c].blogId].status = "approved"
    /\ blogs[calls[c].blogId].status = "rejected"
    /\ blogs[calls[c].blogId].published_at = NULL
    /\ blogs[calls[c].blogId].updated_at > 1

(* C4: every successful dashboard transition to approved sets published_at
   and issues a blog_approved request addressed to the blog's author. *)
C4_ApprovalNotifiesAuthor ==
  [][\A c \in DOMAIN calls :
       (Executes(c) /\ calls[c].status = "approved")
         => /\ blogs'[calls[c].blogId].published_at # NULL
            /\ Len(calls'[c].request) = 1
            /\ calls'[c].request[1].type = "blog_approved"
            /\ calls'[c].request[1].recipientEmail
                 = EmailOf(UserOf(blogs[calls[c].blogId].author_id))]_vars

(* C5: when the update to approved succeeded and the notification fails, the
   call ends with the success toast; the failing notification step changes
   neither the table nor the local list and sends nothing again; the step
   that updated left the blog approved in both; a finished call stays
   finished. *)
C5_NotificationFailureSwallowed ==
  [][\A c \in DOMAIN calls :
       /\ (Executes(c) /\ calls[c].status = "approved")
            => /\ blogs'[calls[c].blogId].status = "approved"
               /\ adminBlogs'[calls[c].tab][calls[c].blogId].status = "approved"
       /\ (calls[c].pc = "notify" /\ calls'[c].pc # "notify")
            => /\ calls[c].updated /\ calls[c].status = "approved"
               /\ calls'[c].pc = "done" /\ calls'[c].toast = "success"
               /\ calls'[c].request = calls[c].request
               /\ blogs' = blogs /\ adminBlogs' = adminBlogs
               /\ Len(calls') = Len(calls)
       /\ calls[c].pc = "done" => calls'[c] = calls[c]]_vars

(* An approval whose notification failed ended with the success toast. *)
C5_Witness ==
  \E c \in DOMAIN calls :
    /\ calls[c].pc = "done" /\ calls[c].updated /\ calls[c].status = "approved"
    /\ Len(calls[c].request) = 1 /\ calls[c].response # 200
    /\ calls[c].toast = "success"
    /\ blogs[calls[c].blogId].status = "approved"
    /\ adminBlogs[calls[c].tab][calls[c].blogId].status = "approved"

(* C2: a status changes only by an admin's statement, or by the author's and
   then only to pending. *)
C2_AuthorCannotApprove ==
  [][\A b \in BlogIds :
       blogs'[b].status # blogs[b].status
         => \/ IsAdmin(lastStmt'.caller)
            \/ /\ IsAuthor(lastStmt'.caller, blogs[b])
               /\ blogs'[b].status = "pending"]_vars

(***************************************************************************)
(* Likes and the denormalized counters.                                    *)
(***************************************************************************)

OneLikePerPair(tbl) ==
  \A l1, l2 \in tbl : (l1.user_id = l2.user_id /\ l1.blog_id = l2.blog_id) => l1 = l2

(* C6: the likes table never holds two rows for one (user, blog) pair, and an
   insert rejected for the pair's uniqueness leaves the table as it was. *)
C6_OneLikePerUserAndBlog ==
  [][/\ OneLikePerPair(likes')
     /\ (lastResult' = "unique_violation" => likes' = likes)]_vars

(* A second like of a pair was refused while the first row is there. *)
C6_Witness ==
  /\ lastResult = "unique_violation"
  /\ \E l \in likes : TRUE

(* C7: each blog's likes_count is the number of its Like rows and its
   comments_count the number of its Comment rows. *)
C7_CountsMirrorRows ==
  \A b \in DOMAIN blogs :
    /\ blogs[b].likes_count = Cardinality({l \in likes : l.blog_id = b})
    /\ blogs[b].comments_count = Cardinality({c \in comments : c.blog_id = b})

(* A like and a comment were inserted and the comment deleted again. *)
C7_Witness ==
  /\ lastResult = "deleted"
  /\ nextId = 2
  /\ comments = {}
  /\ \E b \in DOMAIN blogs : blogs[b].likes_count = 1 /\ blogs[b].comments_count = 0

(***************************************************************************)
(* Thread assembly.                                                        *)
(***************************************************************************)

Assembled == tpc.pass = "done"

(* The elements of an array. *)
Elems(array) == {array[k] : k \in 1 .. Len(array)}

(* The rows of the query result, and the ids among them. *)
Rows == Elems(data)
RowIds == {r.id : r \in Rows}

(* How often id occurs in an array. *)
Occurrences(array, id) == Cardinality({k \in 1 .. Len(array) : array[k] = id})

(* C8, as stated: every comment in a root's reply list has an empty reply
   list (one level of nesting only). *)
C8_OneLevelOnly ==
  Assembled =>
    \A root \in Elems(rootComments) : \A x \in Elems(replies[root]) : replies[x] = << >>

(* C8, amended: a comment whose parent is in the input sits in that parent's
   own reply list, once, whatever the parent's depth, and in no other list;
   a node's reply list holds exactly the comments that name it as parent, so
   it is empty only when none does. *)
C8_RepliesFollowParent ==
  Assembled =>
    \A n \in RowIds : \A r \in Rows :
      Occurrences(replies[n], r.id) = IF r.parent_id = n THEN 1 ELSE 0

(* A reply to a reply sits in the reply's list, two levels below the root. *)
C8_Witness ==
  /\ Assembled
  /\ \E root \in Elems(rootComments) : \E x \in Elems(replies[root]) :
       x # root /\ replies[x] # << >> /\ root \notin Elems(replies[x])

(* C9: a comment with a parent in the input is in that parent's reply list;
   every other comment is a root. *)
C9_KnownParentOrRoot ==
  Assembled =>
    \A r \in Rows :
      IF r.parent_id # NULL /\ r.parent_id \in RowIds
      THEN r.id \in Elems(replies[r.parent_id])
      ELSE r.id \in Elems(rootComments)

(* The place of a comment in the query result. *)
Position(id) == CHOOSE k \in 1 .. Len(data) : data[k].id = id

Ascending(array) ==
  \A a, b \in 1 .. Len(array) :
    a < b => data[Position(array[a])].created_at < data[Position(array[b])].created_at

(* C10: the roots and every reply list are in ascending creation order. *)
C10_OrderPreserved ==
  Assembled => Ascending(rootComments) /\ \A n \in RowIds : Ascending(replies[n])

(* A reply list of two whose ids descend while their creation ascends. *)
C10_Witness ==
  /\ Assembled
  /\ \E n \in RowIds : Len(replies[n]) = 2 /\ replies[n][1] > replies[n][2]

(***************************************************************************)
(* The edge functions.                                                     *)
(***************************************************************************)

(* A posted request that send-notifications must refuse. *)
InvalidNotification(req) ==
  \/ ~ req.json
  \/ Falsy(req.body.type) \/ Falsy(req.body.recipientEmail)
  \/ Falsy(req.body.recipientName)
  \/ req.body.type \notin NotificationTypes

(* A step in which send-notifications answers a posted request. *)
AnswersNotification ==
  notification' # notification /\ notification'.request.method = "POST"

(* C11: a request without type, recipientEmail or recipientName, or with an
   unknown type, is answered 400 with an error body and no mail is attempted
   for it; 500 is answered only when the request is valid (the failure is
   the provider's). *)
C11_InvalidRequestAnswered400 ==
  [][AnswersNotification =>
       /\ InvalidNotification(notification'.request)
            => /\ notification'.response.status = 400
               /\ notification'.response.error # ""
               /\ outbox' = outbox
       /\ notification'.response.status = 500
            => ~ InvalidNotification(notification'.request)]_vars

(* A posted request that carries no content. *)
NoContent(req) == req.json # "object" \/ Falsy(req.content)

(* A step in which summarize-article answers a posted request. *)
AnswersSummarize ==
  summarization' # summarization /\ summarization'.request.method = "POST"

(* C12: summarize-article answers 400 with an error when content is missing
   or empty; 500 with an error when the API key is not configured, the
   upstream call is not OK or its response has no text; otherwise the
   upstream text as summary; without content or without key the LLM API is
   not called. *)
C12_SummarizeStatusCodes ==
  [][AnswersSummarize =>
       LET x == summarization' IN
       IF NoContent(x.request)
       THEN x.response.status = 400 /\ x.response.error # ""
            /\ upstreamCalls' = upstreamCalls
       ELSE IF Falsy(x.apiKey)
       THEN x.response.status = 500 /\ x.response.error # ""
            /\ upstreamCalls' = upstreamCalls
       ELSE IF x.upstream.ok # "yes" \/ Falsy(x.upstream.text)
       THEN x.response.status = 500 /\ x.response.error # ""
       ELSE x.response.status = 200 /\ x.response.summary = x.upstream.text]_vars

(***************************************************************************)
(* Round trips.                                                            *)
(***************************************************************************)

CountsView(v) == page[v].pc = "update" /\ page'[v].pc = "done" /\ blogs' # blogs

(* C14: the view-count update writes the value the page read at its select
   plus one, whatever the counter holds by then, and no load lowers the
   counter below what it read; so two loads that both read before either
   wrote leave the counter one higher, not two. *)
C14_ViewCountReadThenWrite ==
  [][\A v \in Views :
       CountsView(v)
         => /\ blogs'[page[v].blog].views_count = page[v].read + 1
            /\ blogs'[page[v].blog].views_count <= blogs[page[v].blog].views_count + 1]_vars

(* Two loads of one blog have both written and the counter is at one. *)
C14_Witness ==
  \E v1, v2 \in Views :
    /\ v1 # v2 /\ page[v1].pc = "done" /\ page[v2].pc = "done"
    /\ page[v1].blog = page[v2].blog /\ page[v1].read = 0 /\ page[v2].read = 0
    /\ blogs[page[v1].blog].views_count = 1
    /\ \A v \in Views : page[v].pc \in {"idle", "done"}
    /\ \A v \in Views \ {v1, v2} : page[v].pc = "idle"

(***************************************************************************)
(* Who reads which blog.                                                   *)
(***************************************************************************)

(* C19: a select never returns a blog that is not approved to a caller who
   is neither its author nor an admin, and the queries of the public views
   (home page, search, blog page by slug) return approved blogs only, to
   every caller. *)
C19_OnlyApprovedIsPublic ==
  [][lastRead' # lastRead =>
       \A b \in lastRead'.rows :
         /\ \/ blogs[b].status = "approved"
            \/ IsAuthor(lastRead'.caller, blogs[b])
            \/ IsAdmin(lastRead'.caller)
         /\ lastRead'.view # "api" => blogs[b].status = "approved"]_vars

(* An anonymous read of the whole table returned the approved blog while
   another blog was not approved. *)
C19_Witness ==
  /\ lastRead.caller = Anon /\ lastRead.view = "api"
  /\ lastRead.rows # {}
  /\ lastRead.rows = {b \in DOMAIN blogs : blogs[b].status = "approved"}
  /\ \E b \in DOMAIN blogs : blogs[b].status \in {"pending", "rejected"}

(***************************************************************************)
(* Accounts.                                                               *)
(***************************************************************************)

(* The signup that a step adds. *)
SignedUp == authUsers'[Len(authUsers')]

(* C17: the profile a signup creates has role admin exactly when the new
   e-mail address equals, letter case aside, an entry of admin_whitelist,
   and role blogger otherwise; the same signup with any other role in its
   metadata gets the same role. *)
C17_RoleFromWhitelistOnly ==
  [][Len(authUsers') > Len(authUsers) =>
       LET role == profiles'[ProfileId(SignedUp.id)].role
           listed == \E w \in admin_whitelist : Lower(w) = Lower(SignedUp.email)
       IN /\ role = IF listed THEN "admin" ELSE "blogger"
          /\ \A other \in MetaRoles :
               handle_new_user([SignedUp EXCEPT !.role = other], admin_whitelist) = role]_vars

(* A signup asking for blogger became admin through an entry of the list
   spelled in another letter case. *)
C17_Witness ==
  \E i \in 1 .. Len(authUsers) :
    /\ authUsers[i].role = "blogger"
    /\ profiles[ProfileId(authUsers[i].id)].role = "admin"
    /\ authUsers[i].email \notin admin_whitelist
    /\ \E w \in admin_whitelist : Lower(w) = Lower(authUsers[i].email)

(* C18: a statement on admin_whitelist by a caller who is no admin returns
   and affects no row and leaves the table as it is; an admin's select
   returns the table, and an admin's insert of a new address, update and
   delete of a present one take effect. *)
C18_WhitelistAdminsOnly ==
  [][lastWl' # lastWl =>
       IF ~ IsAdmin(lastWl'.caller)
       THEN lastWl'.rows = {} /\ admin_whitelist' = admin_whitelist
       ELSE /\ lastWl'.op = "select" => lastWl'.rows = admin_whitelist
            /\ (lastWl'.op = "insert" /\ lastWl'.email \notin admin_whitelist)
                 => admin_whitelist' = admin_whitelist \cup {lastWl'.email}
            /\ (lastWl'.op = "delete" /\ lastWl'.email \in admin_whitelist)
                 => admin_whitelist' = admin_whitelist \ {lastWl'.email}
            /\ (lastWl'.op = "update" /\ lastWl'.rows # {})
                 => lastWl'.rows \subseteq admin_whitelist']_vars

(* A blogger's delete of an address on the list removed nothing. *)
C18_Witness ==
  /\ lastWl.caller \in Users /\ ~ IsAdmin(lastWl.caller)
  /\ lastWl.op = "delete" /\ lastWl.email \in admin_whitelist
  /\ lastWl.rows = {}

(***************************************************************************)
(* The like button.                                                        *)
(***************************************************************************)

(* The step in which the like request of tab v returns. *)
LikeReturns(v) == likeReq[v] # "none" /\ likeReq'[v] = "none"

(* The Like row of the tab's user for the tab's blog exists. *)
UserLikes(v) ==
  \E l \in likes : l.user_id = ProfileId(ViewUser(v)) /\ l.blog_id = ViewBlog(v)

(* What the tab shows differs from what the database holds. *)
Diverges(v) ==
  \/ likesCount[v] # blogs[ViewBlog(v)].likes_count
  \/ isLiked[v] # UserLikes(v)

(* C15: a like or unlike in a tab sets the tab's isLiked to the kind of the
   request and moves its likesCount by one from its own former value,
   whatever the database holds or answered; no step of the like button
   copies the server's count or the existence of the row into the tab. *)
C15_LikeToggleNeverReadsServer ==
  [][\A v \in Views :
       LikeReturns(v)
         => /\ isLiked'[v] = (likeReq[v] = "insert")
            /\ likesCount'[v] = likesCount[v] + (IF likeReq[v] = "insert" THEN 1 ELSE -1)
            /\ \A w \in Views \ {v} :
                 isLiked'[w] = isLiked[w] /\ likesCount'[w] = likesCount[w]]_vars

(* Two tabs of one user on one blog: the first shows a like and a count the
   database does not hold, the second shows neither, and the second differs
   from the database too (another user's like is counted there). *)
C15_Witness ==
  /\ ViewUser(1) = ViewUser(2) /\ ViewBlog(1) = ViewBlog(2)
  /\ likeReq[1] = "none" /\ likeReq[2] = "none"
  /\ isLiked[1] /\ ~ isLiked[2] /\ likesCount[1] = 1 /\ likesCount[2] = 0
  /\ blogs[ViewBlog(1)].likes_count = 1 /\ ~ UserLikes(1)
  /\ Diverges(1) /\ Diverges(2)

(* C16: when the database rejects the like request, the tab's isLiked and
   likesCount stay as they were. *)
C16_RejectedLikeLeavesLocalState ==
  [][\A v \in Views :
       (LikeReturns(v) /\ lastResult' \in {"rls_violation", "fk_violation", "unique_violation"})
         => isLiked'[v] = isLiked[v] /\ likesCount'[v] = likesCount[v]]_vars

(***************************************************************************)
(* Submitting an article.                                                  *)
(***************************************************************************)

(* The rows a step adds to blogs. *)
NewBlogs == DOMAIN blogs' \ DOMAIN blogs

(* A field of the submitted form is empty after trimming. *)
BlankForm(form) == Trim(form.title) = << >> \/ Trim(form.content) = << >>

(* Every row the form creates is pending, unpublished and hidden from a
   caller without a session. *)
StartsPending ==
  \A b \in NewBlogs :
    /\ blogs'[b].status = "pending" /\ blogs'[b].published_at = NULL
    /\ ~ BlogsSelectPolicy(Anon, blogs'[b])

(* C20, as stated: a row the form creates starts pending and unpublished,
   and a submission whose title or content is empty after trimming creates
   no row. *)
C20_BlankFormInsertsNothing ==
  [][lastSubmit' # lastSubmit =>
       /\ StartsPending
       /\ BlankForm(lastSubmit'.form) => NewBlogs = {}]_vars

(* C20, amended: a row the form creates starts pending and unpublished; an
   empty title or content creates no row; in revision 2 a title or content
   that is empty after trimming creates no row and the title is stored
   trimmed; in revision 1 a title or content of spaces only is inserted as
   typed. *)
C20_SubmittedBlogStartsPending ==
  [][lastSubmit' # lastSubmit =>
       LET form == lastSubmit'.form IN
       /\ StartsPending
       /\ ~ Required(form) => NewBlogs = {}
       /\ (version = 2 /\ BlankForm(form)) => NewBlogs = {}
       /\ \A b \in NewBlogs :
            /\ lastSubmit'.id = b
            /\ blogs'[b].author_id = ProfileId(lastSubmit'.user)
            /\ blogs'[b].title = IF version = 1 THEN form.title ELSE Trim(form.title)]_vars

(* Revision 2 stored a title typed with a leading space, trimmed. *)
C20_Witness ==
  /\ version = 2 /\ lastSubmit.id # 0
  /\ lastSubmit.form.title = <<" ", "t">>
  /\ blogs[lastSubmit.id].title = <<"t">>
  /\ blogs[lastSubmit.id].status = "pending"

(* C21: a like request of a signed-in user who has a profile, sent from the
   blog page while the user's Like row for the blog does not exist, is
   accepted and stores a row whose user_id is the id of the user's profile. *)
C21_LikeCarriesProfileId ==
  [][\A v \in Views :
       (/\ LikeReturns(v) /\ likeReq[v] = "insert"
        /\ ProfileId(ViewUser(v)) \in DOMAIN profiles
        /\ ~ UserLikes(v))
         => /\ lastResult' = "inserted"
            /\ \E l \in likes' \ likes :
                 l.user_id = ProfileId(ViewUser(v)) /\ l.blog_id = ViewBlog(v)]_vars

(***************************************************************************)
(* Termination of assembly and rendering.                                  *)
(***************************************************************************)

(* The steps the two passes still have to take. *)
PassesLeft ==
  CASE tpc.pass = "first" -> (Len(data) + 2 - tpc.i) + (Len(data) + 1)
    [] tpc.pass = "second" -> Len(data) + 2 - tpc.i
    [] OTHER -> 0

(* The steps rendering still has to take, at most: one per comment not yet
   rendered, and the steps that start and end it. *)
RenderLeft ==
  CASE rendering.pc = "idle" -> Len(data) + 2
    [] rendering.pc = "run" -> (Len(data) - Len(rendering.out)) + 1
    [] OTHER -> 0

Variant == PassesLeft + RenderLeft

(* C22: assembly and rendering terminate for every query result, cycles of
   parent_id and chains of any depth included: every step of them lowers a
   natural number (the rows the passes have not visited plus the comments
   not rendered), which is zero exactly when the rendering is complete. *)
C22_AssemblyAndRenderingTerminate ==
  [][tpc.pass # "idle" =>
       /\ 0 <= Variant' /\ Variant' < Variant
       /\ (Variant' = 0) = (rendering'.pc = "done")]_vars

(* A result of a root and two comments that name each other as parent has
   been rendered: the root alone is in the list. *)
C22_Witness ==
  /\ rendering.pc = "done"
  /\ \E a, b \in Rows : a.id # b.id /\ a.parent_id = b.id /\ b.parent_id = a.id
  /\ Len(rendering.out) = 1

(* C23: when the list is rendered, every comment of the query result is in
   the forest once: it is rendered exactly once. *)
C23_EveryCommentOnce ==
  rendering.pc = "done" => \A id \in RowIds : Occurrences(rendering.out, id) = 1

(***************************************************************************)
(* The forms of the comment section.                                       *)
(***************************************************************************)

(* The comment row with this id is a root. *)
IsRoot(id) == \E c \in comments : c.id = id /\ c.parent_id = NULL

(* C24: with comments and replies submitted through the comment section
   only, replyTo is null or the id of a root comment, the parent of every
   comment row that has one is a root, and the count in the header of a
   section is the number of rows its last query returned. *)
C24_RepliesOnlyToRoots ==
  /\ \A t \in Views :
       /\ section[t].replyTo = NULL \/ IsRoot(section[t].replyTo)
       /\ HeaderCount(section[t]) = section[t].rows
  /\ \A c \in comments : c.parent_id # NULL => IsRoot(c.parent_id)

(* A section shows a root with its reply, two comments in the header, and
   its reply form is open at the root again. *)
C24_Witness ==
  \E t \in Views :
    /\ section[t].pc = "ready" /\ HeaderCount(section[t]) = 2
    /\ Len(section[t].comments) = 1
    /\ section[t].replyTo = section[t].comments[1]
    /\ \E c \in comments : c.parent_id = section[t].replyTo

(* C27: no step of a page load lowers the stored views_count of a blog. *)
C27_ViewsCountNeverDecreases ==
  [][\A b \in BlogIds : blogs'[b].views_count >= blogs[b].views_count]_vars

(***************************************************************************)
(* The load of the blog page.                                              *)
(***************************************************************************)

(* The page of tab v shows its blog to a signed-in user and none of the
   requests of its effect is in flight. *)
Loaded(v) ==
  /\ blogView[v].user /\ blogView[v].blog # 0 /\ ~ blogView[v].gone /\ ~ blogView[v].loading
  /\ blogView[v].fetches = {} /\ ~ blogView[v].check

(* C25: at the end of the load of a signed-in user's page, isLiked says
   whether the Like row of the user for the blog exists. *)
C25_IsLikedMatchesRowAfterLoad ==
  [][\A v \in LoadTabs :
       (~ Loaded(v) /\ Loaded(v)') => (isLiked'[v] = UserLikes(v)')]_vars

(* C26: the likesCount a page displays is never negative. *)
C26_LikesCountNeverNegative == \A v \in Views : likesCount[v] >= 0

(***************************************************************************)
(* Roles.                                                                  *)
(***************************************************************************)

(* C28: a statement that turns the role of a profile from blogger into admin
   is a statement of the database owner, never one sent under the policies
   by a user whose role is blogger. *)
C28_BloggerCannotBecomeAdmin ==
  [][\A p \in ProfileIds :
       (profiles[p].role = "blogger" /\ profiles'[p].role = "admin")
         => lastProfile'.caller = Owner]_vars

(***************************************************************************)
(* Two status updates from one dashboard.                                  *)
(***************************************************************************)

(* C29: when two calls of updateBlogStatus from one dashboard tab on two
   different blogs have both updated the database and set the list, the
   list shows the new status of both blogs. *)
C29_BothStatusesShown ==
  \A c1, c2 \in DOMAIN calls :
    (/\ calls[c1].tab = calls[c2].tab /\ calls[c1].blogId # calls[c2].blogId
     /\ calls[c1].updated /\ calls[c2].updated)
      => /\ adminBlogs[calls[c1].tab][calls[c1].blogId].status = calls[c1].status
         /\ adminBlogs[calls[c2].tab][calls[c2].blogId].status = calls[c2].status

====
